---- MODULE Spec2Model ----
(***************************************************************************)
(* Model of charm-layer-openstack: the cluster address topology built by   *)
(* PeerHARelationAdapter (adapters.py), the HA resource set built by       *)
(* configure_ha_resources (ha.py and OpenStackCharm in charm.py) and the   *)
(* declarations emitted by the VirtualIP / InitService descriptors (ha.py).*)
(*                                                                         *)
(* Python values are modelled as follows: None is the string "None"; a     *)
(* dict is a function whose DOMAIN is its key set; a list is a sequence;   *)
(* a string that the code edits or formats (service names, resource keys,  *)
(* parameter strings) is a sequence of text chunks in which every '-' is a *)
(* chunk of its own, so that str.replace('-', '_') is computed and not     *)
(* assumed.                                                                *)
(***************************************************************************)
EXTENDS Integers, Sequences, FiniteSets, TLC

VARIABLES
    interfaces,     \* names of the network interfaces present on this node
    config,         \* the charm configuration, hookenv.config()
    local_address,  \* APIConfigurationAdapter().local_address
    relation,       \* what the peers advertised on the cluster relation
    cluster_hosts,  \* PeerHARelationAdapter.cluster_hosts
    adapter_pc,     \* "new" before PeerHARelationAdapter.__init__, "built" after
    ha_resources,   \* the declared list of resource kinds
    service_name,   \* the charm's name / the service_name argument
    resources,      \* OpenStackCharm.resources (self.resources)
    sink,           \* calls received by the hacluster interface, in order
    raised,         \* exception that ended the last pass, "None" if none
    entry,          \* which configure_ha_resources ran last: "ha", "charm"
    pass,           \* number of configure_ha_resources passes run so far
    descriptor,     \* a ResourceDescriptor under test
    crm,            \* declarations the descriptor emitted, in order
    _adapters,      \* OpenStackRelationAdapters._adapters, the class-level dict
    class_props,    \* properties set on each adapter class by setattr
    registry        \* the OpenStackRelationAdapters instance constructed last

vars == <<interfaces, config, local_address, relation, cluster_hosts,
          adapter_pc, ha_resources, service_name, resources, sink, raised,
          entry, pass, descriptor, crm, _adapters, class_props, registry>>

registry_vars == <<_adapters, class_props, registry>>

None == "None"

\* ------------------------------------------------------------------------
\* Bounds of the model
\* ------------------------------------------------------------------------

\* peer advertisements present on the cluster relation
MaxAdverts == 2
\* length of the declared ha_resources list
MaxKinds == 2
\* number of VIPs in the 'vip' option
MaxVips == 2
\* configure_ha_resources passes in one behaviour
MaxPasses == 2
\* configure_resource calls on one descriptor
MaxRenders == 2
\* relations visible to one OpenStackRelationAdapters registry
MaxRelations == 2

\* ------------------------------------------------------------------------
\* Python helpers
\* ------------------------------------------------------------------------

EmptyDict == [k \in {} |-> None]

\* d[k] = v
DictSet(d, k, v) == [x \in (DOMAIN d) \cup {k} |-> IF x = k THEN v ELSE d[x]]

\* sequences over S of length at most n
SeqUpTo(S, n) == UNION {[1..m -> S] : m \in 0..n}

\* bool(x) for the strings and None the code tests
Truthy(x) == x # None /\ x # ""

\* ------------------------------------------------------------------------
\* The node: its interfaces (charmhelpers.contrib.network.ip looks them up)
\* ------------------------------------------------------------------------

AllIfaces ==
    { [iface |-> "eth0", addr |-> "10.0.0.1", netmask |-> "24",
       network |-> "10.0.0.0/24"],
      [iface |-> "eth1", addr |-> "10.1.0.1", netmask |-> "16",
       network |-> "10.1.0.0/16"] }

\* the network an address lies in
NetworkOf(addr) ==
    CASE addr \in {"10.0.0.1", "10.0.0.2", "10.0.0.9", "10.0.0.50"}
                                                    -> "10.0.0.0/24"
      [] addr \in {"10.1.0.1", "10.1.0.2"}         -> "10.1.0.0/16"
      [] OTHER                                      -> None

Present == {i \in AllIfaces : i.iface \in interfaces}

\* ch_ip.get_address_in_network(network): the local address inside network
get_address_in_network(network) ==
    IF network = None THEN None
    ELSE IF \E i \in Present : i.network = network
         THEN (CHOOSE i \in Present : i.network = network).addr
         ELSE None

\* ch_ip.get_netmask_for_address / get_iface_for_address: the netmask (the
\* name) of the interface whose network holds the address, else None
OwnerOf(addr) == {i \in Present : i.network = NetworkOf(addr)}

get_netmask_for_address(addr) ==
    IF OwnerOf(addr) = {} THEN None ELSE (CHOOSE i \in OwnerOf(addr) : TRUE).netmask

get_iface_for_address(addr) ==
    IF OwnerOf(addr) = {} THEN None ELSE (CHOOSE i \in OwnerOf(addr) : TRUE).iface

\* ------------------------------------------------------------------------
\* adapters.py: PeerHARelationAdapter
\* ------------------------------------------------------------------------

ADDRESS_TYPES == <<"admin", "internal", "public">>

\* APIConfigurationAdapter().local_unit_name
local_unit_name == "myapi-0"

\* the address key ip_map uses when called without one
UnscopedKey == "private-address"

\* 'os-{}-network'.format(addr_type)
cfg_opt(addr_type) == "os-" \o addr_type \o "-network"

\* '{}-address'.format(addr_type)
address_key(addr_type) == addr_type \o "-address"

\* "{}/{}".format(laddr, netmask)
NetworkStr(laddr, netmask) == laddr \o "/" \o netmask

\* self.relation.ip_map(address_key=key): the (unit, address) pairs the
\* peer source holds for key, in the order it holds them
RECURSIVE ip_map_from(_, _, _)
ip_map_from(rel, key, i) ==
    IF i > Len(rel) THEN << >>
    ELSE IF rel[i].key = key
         THEN << <<rel[i].unit, rel[i].addr>> >> \o ip_map_from(rel, key, i + 1)
         ELSE ip_map_from(rel, key, i + 1)

ip_map(key) == ip_map_from(relation, key, 1)

\* for _unit, _laddr in pairs: backends[_unit] = _laddr
RECURSIVE SetBackends(_, _, _)
SetBackends(backends, pairs, i) ==
    IF i > Len(pairs) THEN backends
    ELSE SetBackends(DictSet(backends, pairs[i][1], pairs[i][2]), pairs, i + 1)

\* one iteration of the loop of add_network_split_addresses
SplitEntry(hosts, laddr, addr_type) ==
    DictSet(hosts, laddr,
            [network  |-> NetworkStr(laddr, get_netmask_for_address(laddr)),
             backends |-> SetBackends(
                              DictSet(EmptyDict, local_unit_name, laddr),
                              ip_map(address_key(addr_type)), 1)])

RECURSIVE add_network_split_addresses(_, _)
add_network_split_addresses(hosts, i) ==
    IF i > Len(ADDRESS_TYPES) THEN hosts
    ELSE LET addr_type == ADDRESS_TYPES[i]
             laddr == get_address_in_network(config[cfg_opt(addr_type)])
         IN  IF Truthy(laddr)
             THEN add_network_split_addresses(
                      SplitEntry(hosts, laddr, addr_type), i + 1)
             ELSE add_network_split_addresses(hosts, i + 1)

add_default_addresses(hosts) ==
    DictSet(hosts, local_address,
            [network  |-> NetworkStr(local_address,
                                     get_netmask_for_address(local_address)),
             backends |-> SetBackends(
                              DictSet(EmptyDict, local_unit_name, local_address),
                              ip_map(UnscopedKey), 1)])

\* PeerHARelationAdapter.__init__
PeerHARelationAdapterInit ==
    /\ adapter_pc = "new"
    /\ cluster_hosts' = add_default_addresses(
                            add_network_split_addresses(EmptyDict, 1))
    /\ adapter_pc' = "built"
    /\ UNCHANGED <<interfaces, config, local_address, relation, ha_resources,
                   service_name, resources, sink, raised, entry, pass,
                   descriptor, crm>>
    /\ UNCHANGED registry_vars

\* ------------------------------------------------------------------------
\* adapters.py: the adapter classes and the shared relation-type mapping
\* ------------------------------------------------------------------------

\* the generic adapter class, base of every other adapter class
Generic == "OpenStackRelationAdapter"

\* OpenStackRelationAdapters._adapters as the class statement defines it
DefaultAdapters ==
    [n \in { <<"amqp">>, <<"shared", "_", "db">>, <<"cluster">> } |->
        CASE n = <<"amqp">>              -> "RabbitMQRelationAdapter"
          [] n = <<"shared", "_", "db">> -> "DatabaseRelationAdapter"
          [] OTHER                       -> "PeerHARelationAdapter"]

\* adapter classes: those of adapters.py and two defined by services
AdapterKinds ==
    {Generic, "RabbitMQRelationAdapter", "DatabaseRelationAdapter",
     "PeerHARelationAdapter", "SvcAMQPAdapter", "SvcIdentityAdapter"}

NoRegistry ==
    [cls |-> None, relations |-> << >>, fault |-> None, adapters |-> << >>,
     raised |-> None]

\* no registry constructed yet: the mapping as defined, no property set
RegistryIdle ==
    /\ _adapters = DefaultAdapters
    /\ class_props = [k \in AdapterKinds |-> {}]
    /\ registry = NoRegistry

\* ------------------------------------------------------------------------
\* Inputs of the topology
\* ------------------------------------------------------------------------

Networks == {i.network : i \in AllIfaces}

PeerUnits == {"myapi-1"}

AddressKeys == {address_key(ADDRESS_TYPES[i]) : i \in 1..Len(ADDRESS_TYPES)}
                   \cup {UnscopedKey}

\* what a peer source can hold: a remote unit with one of its addresses, or
\* an entry carrying this unit's own name
Adverts ==
    [key : AddressKeys, unit : PeerUnits, addr : {"10.0.0.2", "10.1.0.2"}]
        \cup [key : AddressKeys, unit : {local_unit_name}, addr : {"10.0.0.9"}]

NoVips == << >>

TopologyConfigs ==
    {[k \in {"os-admin-network", "os-internal-network", "os-public-network",
             "vip", "vip_iface", "vip_cidr"} |->
         CASE k = "os-admin-network"    -> a
           [] k = "os-internal-network" -> b
           [] k = "os-public-network"   -> c
           [] k = "vip"                 -> NoVips
           [] OTHER                     -> None] :
        a \in Networks \cup {None}, b \in Networks \cup {None},
        c \in Networks \cup {None}}

NoDescriptor == [kind |-> "none"]

InitTopology ==
    /\ interfaces \in (SUBSET {i.iface : i \in AllIfaces}) \ {{}}
    /\ local_address \in {i.addr : i \in Present}
    /\ config \in TopologyConfigs
    /\ relation \in SeqUpTo(Adverts, MaxAdverts)
    /\ cluster_hosts = EmptyDict
    /\ adapter_pc = "new"
    /\ ha_resources = << >>
    /\ service_name = << >>
    /\ resources = << >>
    /\ sink = << >>
    /\ raised = None
    /\ entry = None
    /\ pass = 0
    /\ descriptor = NoDescriptor
    /\ crm = << >>
    /\ RegistryIdle

NextTopology == PeerHARelationAdapterInit

SpecTopology == InitTopology /\ [][NextTopology]_vars

\* ------------------------------------------------------------------------
\* ha.py and charm.py: building the resource set
\* ------------------------------------------------------------------------

VIP_KEY == "vip"
CIDR_KEY == "vip_cidr"
IFACE_KEY == "vip_iface"

\* the multicast port both configure_ha_resources pass to bind_on
McastPort == 4440

\* the kinds RESOURCE_TYPES has a builder for
RESOURCE_TYPES == {"vips", "haproxy"}

\* a or b  with the operands taken in the other order
OrElseFallbackFirst(a, b) == IF Truthy(b) THEN b ELSE a

\* Python's  a or b
OrElse(a, b) == IF Truthy(a) THEN a ELSE b

\* VirtualIP.__init__
VirtualIP(name, vip, nic, cidr) ==
    [kind |-> "VirtualIP", service_name |-> name, vip |-> vip, nic |-> nic,
     cidr |-> cidr]

\* InitService.__init__
InitService(name, init_service_name) ==
    [kind |-> "InitService", service_name |-> name,
     init_service_name |-> init_service_name]

\* add that puts the descriptor in front of what the CRM already holds
CRM_addInFront(_resources, desc) == <<desc>> \o _resources

\* resources.add(descriptor): the CRM keeps what was added, in order
CRM_add(_resources, desc) == Append(_resources, desc)

\* the interface and the netmask configure_vips gives a VIP
vip_iface_for(vip) == OrElse(get_iface_for_address(vip), config[IFACE_KEY])

vip_netmask_for(vip) == OrElse(get_netmask_for_address(vip), config[CIDR_KEY])

\* ha.configure_vips: the loop over user_config[VIP_KEY].split(), from i on
RECURSIVE configure_vips(_, _, _)
configure_vips(_resources, name, i) ==
    IF i > Len(config[VIP_KEY]) THEN _resources
    ELSE LET vip == config[VIP_KEY][i]
             iface == vip_iface_for(vip)
             netmask == vip_netmask_for(vip)
         IN  IF iface # None
             THEN configure_vips(
                      CRM_add(_resources, VirtualIP(name, vip, iface, netmask)),
                      name, i + 1)
             ELSE configure_vips(_resources, name, i + 1)

\* ha.configure_haproxy
configure_haproxy(_resources, name) ==
    CRM_add(_resources, InitService(name, <<"haproxy">>))

\* ha.configure_ha_resources: the loop over ha_resources, from i on; the
\* result is the CRM built and the exception raised, if any
RECURSIVE ha_build(_, _, _)
ha_build(_resources, name, i) ==
    IF i > Len(ha_resources) THEN [resources |-> _resources, raised |-> None]
    ELSE LET res_type == ha_resources[i]
         IN  IF res_type \notin RESOURCE_TYPES
             THEN [resources |-> _resources, raised |-> "KeyError"]
             ELSE IF res_type = "vips"
             THEN ha_build(configure_vips(_resources, name, 1), name, i + 1)
             ELSE ha_build(configure_haproxy(_resources, name), name, i + 1)

\* the two sink calls with the CRM shared between passes: what an earlier
\* pass handed over is still in the set handed over now
SinkCallsSharedCRM(p, _resources) ==
    LET earlier == SelectSeq(sink, LAMBDA c : c.call = "manage_resources")
        kept == IF earlier = << >> THEN << >>
                ELSE earlier[Len(earlier)].resources
    IN  << [pass |-> p, call |-> "bind_on", iface |-> config[IFACE_KEY],
            mcastport |-> 4440],
           [pass |-> p, call |-> "manage_resources",
            resources |-> kept \o _resources] >>

\* the two sink calls with manage_resources made before bind_on
SinkCallsApplyFirst(p, _resources) ==
    << [pass |-> p, call |-> "manage_resources", resources |-> _resources],
       [pass |-> p, call |-> "bind_on", iface |-> config[IFACE_KEY],
        mcastport |-> 4440] >>

\* hacluster.bind_on(iface=..., mcastport=4440) then
\* hacluster.manage_resources(resources), as received in pass p
SinkCalls(p, _resources) ==
    << [pass |-> p, call |-> "bind_on", iface |-> config[IFACE_KEY],
        mcastport |-> McastPort],
       [pass |-> p, call |-> "manage_resources", resources |-> _resources] >>

\* ha.configure_ha_resources(hacluster, service_name, ha_resources)
ha_configure_ha_resources ==
    /\ pass < MaxPasses
    /\ pass' = pass + 1
    /\ entry' = "ha"
    /\ IF ha_resources = << >>
       THEN /\ raised' = None
            /\ UNCHANGED sink
       ELSE LET built == ha_build(<< >>, service_name, 1)
            IN  /\ raised' = built.raised
                /\ sink' = IF built.raised = None
                           THEN sink \o SinkCalls(pass + 1, built.resources)
                           ELSE sink
    /\ UNCHANGED <<interfaces, config, local_address, relation, cluster_hosts,
                   adapter_pc, ha_resources, service_name, resources,
                   descriptor, crm>>
    /\ UNCHANGED registry_vars

\* OpenStackCharm._add_ha_vips_config: the loop over the VIPs, from i on.
\* self.config is the dict config() returned (charm.py line 70, indexed as a
\* dict at lines 135, 141, 216 and 222), so the call self.config(IFACE_KEY),
\* evaluated when no interface owns the VIP, raises TypeError, and so does
\* self.config(CIDR_KEY) when no netmask is found.
RECURSIVE _add_ha_vips_config(_, _)
_add_ha_vips_config(_resources, i) ==
    IF i > Len(config[VIP_KEY]) THEN [resources |-> _resources, raised |-> None]
    ELSE LET vip == config[VIP_KEY][i]
             iface == get_iface_for_address(vip)
             netmask == get_netmask_for_address(vip)
         IN  IF ~Truthy(iface) \/ ~Truthy(netmask)
             THEN [resources |-> _resources, raised |-> "TypeError"]
             ELSE _add_ha_vips_config(
                      CRM_add(_resources,
                              VirtualIP(service_name, vip, iface, netmask)),
                      i + 1)

\* OpenStackCharm._add_ha_haproxy_config
_add_ha_haproxy_config(_resources) ==
    CRM_add(_resources, InitService(service_name, <<"haproxy">>))

\* OpenStackCharm.configure_ha_resources: the loop over self.ha_resources
RECURSIVE charm_build(_, _)
charm_build(_resources, i) ==
    IF i > Len(ha_resources) THEN [resources |-> _resources, raised |-> None]
    ELSE LET res_type == ha_resources[i]
         IN  IF res_type \notin RESOURCE_TYPES
             THEN [resources |-> _resources, raised |-> "KeyError"]
             ELSE IF res_type = "vips"
             THEN LET r == _add_ha_vips_config(_resources, 1)
                  IN  IF r.raised # None THEN r
                      ELSE charm_build(r.resources, i + 1)
             ELSE charm_build(_add_ha_haproxy_config(_resources), i + 1)

\* OpenStackCharm.configure_ha_resources(hacluster)
OpenStackCharm_configure_ha_resources ==
    /\ pass < MaxPasses
    /\ pass' = pass + 1
    /\ entry' = "charm"
    /\ IF ha_resources = << >>
       THEN /\ resources' = << >>
            /\ raised' = None
            /\ UNCHANGED sink
       ELSE LET built == charm_build(<< >>, 1)
            IN  /\ resources' = built.resources
                /\ raised' = built.raised
                /\ sink' = IF built.raised = None
                           THEN sink \o SinkCalls(pass + 1, built.resources)
                           ELSE sink
    /\ UNCHANGED <<interfaces, config, local_address, relation, cluster_hosts,
                   adapter_pc, ha_resources, service_name, descriptor, crm>>
    /\ UNCHANGED registry_vars

\* ------------------------------------------------------------------------
\* Inputs of the resource set
\* ------------------------------------------------------------------------

\* the IP literals used as VIPs, by family; "10.0.0.50" lies in eth0's network
IPv4Literals == {"10.0.0.50"}
IPv6Literals == {"2001:db8::50"}

\* declared kinds: the two known ones and one without a builder
Kinds == RESOURCE_TYPES \cup {"frobnicate"}

ServiceNames == { <<"myapi">>, <<"my", "-", "api">> }

HAConfigs ==
    {[k \in {"os-admin-network", "os-internal-network", "os-public-network",
             "vip", "vip_iface", "vip_cidr"} |->
         CASE k = VIP_KEY   -> v
           [] k = IFACE_KEY -> f
           [] k = CIDR_KEY  -> c
           [] OTHER         -> None] :
        v \in SeqUpTo(IPv4Literals \cup IPv6Literals, MaxVips),
        f \in {None, "eth2"}, c \in {None, "32"}}

InitHA ==
    /\ interfaces \in {{"eth1"}, {"eth0", "eth1"}}
    /\ local_address = "10.1.0.1"
    /\ config \in HAConfigs
    /\ relation = << >>
    /\ cluster_hosts = EmptyDict
    /\ adapter_pc = "new"
    /\ ha_resources \in SeqUpTo(Kinds, MaxKinds)
    /\ service_name \in ServiceNames
    /\ resources = << >>
    /\ sink = << >>
    /\ raised = None
    /\ entry = None
    /\ pass = 0
    /\ descriptor = NoDescriptor
    /\ crm = << >>
    /\ RegistryIdle

NextHA ==
    \/ ha_configure_ha_resources
    \/ OpenStackCharm_configure_ha_resources

SpecHA == InitHA /\ [][NextHA]_vars

\* ------------------------------------------------------------------------
\* ha.py: the declarations a descriptor emits
\* ------------------------------------------------------------------------

\* s.replace(old, new) on a text made of chunks
Replace(s, old, new) == [i \in 1..Len(s) |-> IF s[i] = old THEN new ELSE s[i]]

\* ipaddress.ip_address(vip): the class of the parsed address, or ValueError
ip_address(vip) ==
    IF vip \in IPv4Literals THEN "IPv4Address"
    ELSE IF vip \in IPv6Literals THEN "IPv6Address"
    ELSE "ValueError"

\* configure_resource of a VirtualIP with the isinstance test inverted
VirtualIP_primitiveFamilySwapped(d) ==
    LET vip_key == <<"res_">> \o d.service_name \o <<"_", d.nic, "_vip">>
        v4 == ip_address(d.vip) # "IPv4Address"
        res_type == IF v4 THEN <<"ocf:heartbeat:IPaddr2">>
                    ELSE <<"ocf:heartbeat:IPv6addr">>
        p0 == IF v4 THEN <<"ip=\"", d.vip, "\"">>
              ELSE <<"ipv6addr=\"", d.vip, "\"">>
        p1 == IF Truthy(d.nic) THEN p0 \o <<" nic=\"", d.nic, "\"">> ELSE p0
        p2 == IF Truthy(d.cidr) THEN p1 \o <<" cidr_netmask=\"", d.cidr, "\"">>
              ELSE p1
    IN  [call |-> "primitive", name |-> vip_key, type |-> res_type,
         params |-> p2]

\* VirtualIP.configure_resource for a VIP that parses: the crm.primitive call
VirtualIP_primitive(d) ==
    LET vip_key == <<"res_">> \o d.service_name \o <<"_", d.nic, "_vip">>
        v4 == ip_address(d.vip) = "IPv4Address"
        res_type == IF v4 THEN <<"ocf:heartbeat:IPaddr2">>
                    ELSE <<"ocf:heartbeat:IPv6addr">>
        p0 == IF v4 THEN <<"ip=\"", d.vip, "\"">>
              ELSE <<"ipv6addr=\"", d.vip, "\"">>
        p1 == IF Truthy(d.nic) THEN p0 \o <<" nic=\"", d.nic, "\"">> ELSE p0
        p2 == IF Truthy(d.cidr) THEN p1 \o <<" cidr_netmask=\"", d.cidr, "\"">>
              ELSE p1
    IN  [call |-> "primitive", name |-> vip_key, type |-> res_type,
         params |-> p2]

\* VirtualIP.configure_resource(crm)
VirtualIP_configure_resource ==
    /\ descriptor.kind = "VirtualIP"
    /\ raised = None
    /\ Len(crm) < MaxRenders
    /\ IF ip_address(descriptor.vip) = "ValueError"
       THEN /\ raised' = "ValueError"
            /\ UNCHANGED crm
       ELSE /\ crm' = Append(crm, VirtualIP_primitive(descriptor))
            /\ UNCHANGED raised
    /\ UNCHANGED <<interfaces, config, local_address, relation, cluster_hosts,
                   adapter_pc, ha_resources, service_name, resources, sink,
                   entry, pass, descriptor>>
    /\ UNCHANGED registry_vars

\* InitService.configure_resource: the three crm calls
InitService_calls(d) ==
    LET res_key == <<"res_">> \o Replace(d.service_name, "-", "_") \o <<"_">>
                       \o Replace(d.init_service_name, "-", "_")
        clone_key == <<"cl_">> \o res_key
        res_type == <<"lsb:">> \o d.init_service_name
    IN  << [call |-> "primitive", name |-> res_key, type |-> res_type,
            params |-> <<"op monitor interval=\"5s\"">>],
           [call |-> "init_services", name |-> d.init_service_name],
           [call |-> "clone", name |-> clone_key, resource |-> res_key] >>

\* InitService.configure_resource(crm)
InitService_configure_resource ==
    /\ descriptor.kind = "InitService"
    /\ Len(crm) < 3 * MaxRenders
    /\ crm' = crm \o InitService_calls(descriptor)
    /\ UNCHANGED <<interfaces, config, local_address, relation, cluster_hosts,
                   adapter_pc, ha_resources, service_name, resources, sink,
                   raised, entry, pass, descriptor>>
    /\ UNCHANGED registry_vars

\* ------------------------------------------------------------------------
\* Inputs of the descriptors
\* ------------------------------------------------------------------------

Descriptors ==
    {VirtualIP(name, vip, nic, cidr) :
        name \in ServiceNames,
        vip \in IPv4Literals \cup IPv6Literals \cup {"bogus"},
        nic \in {None, "", "eth0", "eth1"},
        cidr \in {None, "", "24"}}
    \cup {InitService(name, init) :
             name \in ServiceNames,
             init \in { <<"haproxy">>, <<"nova", "-", "api">> }}

InitRender ==
    /\ interfaces = {"eth0", "eth1"}
    /\ local_address = "10.0.0.1"
    /\ config \in {c \in TopologyConfigs :
                      \A i \in 1..Len(ADDRESS_TYPES) :
                          c[cfg_opt(ADDRESS_TYPES[i])] = None}
    /\ relation = << >>
    /\ cluster_hosts = EmptyDict
    /\ adapter_pc = "new"
    /\ ha_resources = << >>
    /\ service_name = << >>
    /\ resources = << >>
    /\ sink = << >>
    /\ raised = None
    /\ entry = None
    /\ pass = 0
    /\ descriptor \in Descriptors
    /\ crm = << >>
    /\ RegistryIdle

NextRender ==
    \/ VirtualIP_configure_resource
    \/ InitService_configure_resource

SpecRender == InitRender /\ [][NextRender]_vars

\* ------------------------------------------------------------------------
\* Repeated passes and repeated configure_resource calls together
\* ------------------------------------------------------------------------

InitIdempotence == InitHA \/ InitRender

NextIdempotence ==
    \/ ha_configure_ha_resources
    \/ OpenStackCharm_configure_ha_resources
    \/ VirtualIP_configure_resource
    \/ InitService_configure_resource

SpecIdempotence == InitIdempotence /\ [][NextIdempotence]_vars

\* ------------------------------------------------------------------------
\* adapters.py: OpenStackRelationAdapter and OpenStackRelationAdapters
\* ------------------------------------------------------------------------

\* dict.update: d with every item of u written over it
DictUpdate(d, u) ==
    [k \in (DOMAIN d) \cup (DOMAIN u) |-> IF k \in DOMAIN u THEN u[k] ELSE d[k]]

\* the add_accessors an adapter class passes to the base constructor
add_accessors(kind) ==
    CASE kind = "RabbitMQRelationAdapter" -> << <<"vhost">>, <<"username">> >>
      [] kind = "DatabaseRelationAdapter" ->
             << <<"password">>, <<"username">>, <<"database">> >>
      [] OTHER -> << >>

\* OpenStackRelationAdapter._setup_properties for an instance of class kind:
\* one property per accessor is set on the class, setattr(self.__class__, ..)
_setup_properties(props, kind, rel) ==
    LET accessors == add_accessors(kind) \o rel.auto_accessors
    IN  [props EXCEPT ![kind] =
            @ \cup {Replace(accessors[i], "-", "_") : i \in 1..Len(accessors)}]

\* the adapter classes whose constructor runs code after the base
\* constructor (configuration and network lookups, service code)
RunsOwnCode(kind) ==
    kind \in {"PeerHARelationAdapter", "SvcAMQPAdapter", "SvcIdentityAdapter"}

\* the loop of OpenStackRelationAdapters.__init__ over the relations from i
\* on: mapping is self._adapters, fault the exception a constructor that
\* runs its own code raises in this construction (None: it raises nothing)
RECURSIVE wrap_relations(_, _, _, _, _, _)
wrap_relations(mapping, rels, fault, props, done, i) ==
    IF i > Len(rels)
    THEN [adapters |-> done, props |-> props, raised |-> None]
    ELSE LET relation_name == Replace(rels[i].relation_name, "-", "_")
             generic == [name |-> relation_name, kind |-> Generic,
                         relation |-> rels[i]]
         IN  IF relation_name \notin DOMAIN mapping
             THEN wrap_relations(mapping, rels, fault,
                                 _setup_properties(props, Generic, rels[i]),
                                 Append(done, generic), i + 1)
             ELSE LET kind == mapping[relation_name]
                      set == _setup_properties(props, kind, rels[i])
                      thrown == IF RunsOwnCode(kind) THEN fault ELSE None
                  IN  IF thrown = None
                      THEN wrap_relations(mapping, rels, fault, set,
                               Append(done, [name |-> relation_name,
                                             kind |-> kind,
                                             relation |-> rels[i]]), i + 1)
                      ELSE IF thrown = "KeyError"
                      THEN wrap_relations(mapping, rels, fault,
                               _setup_properties(set, Generic, rels[i]),
                               Append(done, generic), i + 1)
                      ELSE [adapters |-> done, props |-> set,
                            raised |-> thrown]

\* the registry classes: the base class and two service subclasses, each
\* with its relation_adapters
RegistryClasses == {"OpenStackRelationAdapters", "SvcAAdapters", "SvcBAdapters"}

relation_adapters(cls) ==
    CASE cls = "SvcAAdapters" ->
             [n \in { <<"amqp">> } |-> "SvcAMQPAdapter"]
      [] cls = "SvcBAdapters" ->
             [n \in { <<"identity", "_", "service">> } |-> "SvcIdentityAdapter"]
      [] OTHER -> EmptyDict

\* the relations a charm can see, each with its auto_accessors
Relations ==
    { [relation_name |-> <<"amqp">>,
       auto_accessors |-> << <<"private", "-", "address">> >>],
      [relation_name |-> <<"identity", "-", "service">>,
       auto_accessors |-> << <<"service", "-", "host">> >>],
      [relation_name |-> <<"image", "-", "service">>,
       auto_accessors |-> << <<"glance", "-", "api", "-", "url">> >>] }

\* lists of visible relations: no relation twice
RelationLists ==
    {rels \in SeqUpTo(Relations, MaxRelations) :
        \A i, j \in 1..Len(rels) : i # j => rels[i] # rels[j]}

\* OpenStackRelationAdapters.__init__(relations) of class cls
OpenStackRelationAdapters_init ==
    \E cls \in RegistryClasses, rels \in RelationLists,
       fault \in {None, "KeyError", "RuntimeError"} :
        LET mapping == DictUpdate(_adapters, relation_adapters(cls))
            built == wrap_relations(mapping, rels, fault, class_props, << >>, 1)
        IN  /\ _adapters' = mapping
            /\ class_props' = built.props
            /\ registry' = [cls |-> cls, relations |-> rels, fault |-> fault,
                            adapters |-> built.adapters,
                            raised |-> built.raised]
            /\ UNCHANGED <<interfaces, config, local_address, relation,
                           cluster_hosts, adapter_pc, ha_resources,
                           service_name, resources, sink, raised, entry, pass,
                           descriptor, crm>>

NextRegistry == OpenStackRelationAdapters_init

InitRegistry ==
    /\ interfaces = {"eth0", "eth1"}
    /\ local_address = "10.0.0.1"
    /\ config \in {c \in TopologyConfigs :
                      \A i \in 1..Len(ADDRESS_TYPES) :
                          c[cfg_opt(ADDRESS_TYPES[i])] = None}
    /\ relation = << >>
    /\ cluster_hosts = EmptyDict
    /\ adapter_pc = "new"
    /\ ha_resources = << >>
    /\ service_name = << >>
    /\ resources = << >>
    /\ sink = << >>
    /\ raised = None
    /\ entry = None
    /\ pass = 0
    /\ descriptor = NoDescriptor
    /\ crm = << >>
    /\ RegistryIdle

SpecRegistry == InitRegistry /\ [][NextRegistry]_vars

\* ------------------------------------------------------------------------
\* Claims about the topology (checked under SpecTopology)
\* ------------------------------------------------------------------------

\* the four scopes in the order the adapter processes them
Scopes == ADDRESS_TYPES \o <<"default">>

\* the local address a scope resolves to, None when it resolves to none
ScopeAddress(scope) ==
    IF scope = "default" THEN local_address
    ELSE get_address_in_network(config[cfg_opt(scope)])

\* the address key under which peers advertise for a scope
ScopeKey(scope) ==
    IF scope = "default" THEN UnscopedKey ELSE address_key(scope)

\* the units ip_map returned for a scope
ScopePeers(scope) ==
    LET pairs == ip_map(ScopeKey(scope))
    IN  {pairs[i][1] : i \in 1..Len(pairs)}

\* the scopes that resolve to the local address L
ScopesAt(L) == {i \in 1..Len(Scopes) : ScopeAddress(Scopes[i]) = L}

\* backends of L when every scope sharing L contributes, in processing order
RECURSIVE MergedBackends(_, _, _)
MergedBackends(L, backends, i) ==
    IF i > Len(Scopes) THEN backends
    ELSE IF ScopeAddress(Scopes[i]) = L
         THEN MergedBackends(L, SetBackends(backends,
                                     ip_map(ScopeKey(Scopes[i])), 1), i + 1)
         ELSE MergedBackends(L, backends, i + 1)

\* C1: once cluster_hosts is built, every key L of the topology has
\* backends[local unit name] = L, whatever pairs ip_map returned.
C1_LocalBackendIsKey ==
    adapter_pc = "built" =>
        \A L \in DOMAIN cluster_hosts :
            /\ local_unit_name \in DOMAIN cluster_hosts[L].backends
            /\ cluster_hosts[L].backends[local_unit_name] = L

\* C2: when several scopes resolve to the same local address L, the single
\* entry for L has as backends the union of the contributions of every scope
\* sharing L (a later scope winning on a conflicting peer-id) and the network
\* string written last; no peer of an earlier scope is lost.
C2_CollisionMergesBackends ==
    adapter_pc = "built" =>
        \A L \in DOMAIN cluster_hosts :
            Cardinality(ScopesAt(L)) > 1 =>
                /\ cluster_hosts[L].backends =
                       MergedBackends(L, DictSet(EmptyDict, local_unit_name, L), 1)
                /\ cluster_hosts[L].network =
                       NetworkStr(L, get_netmask_for_address(L))
                /\ \A i \in ScopesAt(L) :
                       ScopePeers(Scopes[i]) \subseteq
                           DOMAIN cluster_hosts[L].backends

\* C3: the topology has an entry exactly for the addresses that a configured
\* scope resolves to and for the default scope, and the backends of each
\* entry are the local unit plus the peers ip_map returned for the address
\* key of the scope (the scopes) the entry stands for.
C3_EntriesAndBackendsPerScope ==
    adapter_pc = "built" =>
        /\ DOMAIN cluster_hosts =
               {ScopeAddress(Scopes[i]) : i \in 1..Len(Scopes)} \ {None}
        /\ local_address \in DOMAIN cluster_hosts
        /\ \A L \in DOMAIN cluster_hosts :
               DOMAIN cluster_hosts[L].backends =
                   {local_unit_name} \cup
                       UNION {ScopePeers(Scopes[i]) : i \in ScopesAt(L)}

\* ------------------------------------------------------------------------
\* Claims about the resource set (checked under SpecHA)
\* ------------------------------------------------------------------------

\* the sink calls of pass p
PassCalls(p) == SelectSeq(sink, LAMBDA c : c.pass = p)

\* the resource sets handed to the sink so far
HandedSets ==
    {sink[j].resources : j \in {k \in 1..Len(sink) :
                                    sink[k].call = "manage_resources"}}

\* the members of a sequence
Range(seq) == {seq[i] : i \in 1..Len(seq)}

\* every descriptor built so far that is still held by the charm or the sink
AllDescriptors == Range(resources) \cup UNION {Range(R) : R \in HandedSets}

AllKindsKnown == \A i \in 1..Len(ha_resources) : ha_resources[i] \in RESOURCE_TYPES

\* a VIP for which an interface can be determined
Resolvable(vip) ==
    get_iface_for_address(vip) # None \/ config[IFACE_KEY] # None

\* C4: with a kind that has no builder anywhere in the declared list, the
\* pass fails with an error, the sink receives nothing in that pass, and no
\* partially built resource set is left on the charm.
C4_UnknownKindLeavesNothing ==
    (pass > 0 /\ ~AllKindsKnown) =>
        /\ raised # None
        /\ PassCalls(pass) = << >>
        /\ entry = "charm" => resources = << >>

\* C5: a configured VIP with no determinable interface is skipped without
\* any error: the pass completes, the resource set is handed to the sink and
\* holds a VirtualIP exactly for the VIPs that do resolve (none when the only
\* VIP does not resolve).
C5_UnresolvableVipSkipped ==
    (pass > 0 /\ AllKindsKnown /\ "vips" \in Range(ha_resources)) =>
        /\ raised = None
        /\ \E j \in 1..Len(sink) :
               /\ sink[j].pass = pass
               /\ sink[j].call = "manage_resources"
               /\ {d.vip : d \in {x \in Range(sink[j].resources) :
                                      x.kind = "VirtualIP"}}
                      = {v \in Range(config[VIP_KEY]) : Resolvable(v)}

\* C6: whenever manage_resources is called, bind_on with the configured
\* interface and port 4440 was called exactly once, earlier in the same
\* pass; with an empty list of kinds the sink is never called.
C6_BindOncePrecedesApply ==
    /\ \A j \in 1..Len(sink) :
           sink[j].call = "manage_resources" =>
               LET binds == {k \in 1..Len(sink) :
                                 /\ sink[k].pass = sink[j].pass
                                 /\ sink[k].call = "bind_on"}
               IN  /\ Cardinality(binds) = 1
                   /\ \A k \in binds :
                          /\ k < j
                          /\ sink[k].iface = config[IFACE_KEY]
                          /\ sink[k].mcastport = 4440
    /\ ha_resources = << >> => sink = << >>

\* C6 witness: two passes have each called manage_resources
C6_Witness ==
    /\ pass = 2
    /\ \E j, k \in 1..Len(sink) :
           /\ sink[j].call = "manage_resources" /\ sink[j].pass = 1
           /\ sink[k].call = "manage_resources" /\ sink[k].pass = 2

\* C9 as stated: every VirtualIP gets the explicit override (vip_iface,
\* vip_cidr) when one is configured and the derived value only otherwise.
C9_OverrideFirst ==
    \A d \in AllDescriptors :
        d.kind = "VirtualIP" =>
            /\ d.nic = IF config[IFACE_KEY] # None THEN config[IFACE_KEY]
                       ELSE get_iface_for_address(d.vip)
            /\ d.cidr = IF config[CIDR_KEY] # None THEN config[CIDR_KEY]
                        ELSE get_netmask_for_address(d.vip)

\* C9 amended: every VirtualIP gets the interface and the netmask derived
\* from the local interfaces when a local interface owns the VIP, and the
\* configured vip_iface / vip_cidr only otherwise.
C9_DerivedFirst ==
    \A d \in AllDescriptors :
        d.kind = "VirtualIP" =>
            /\ d.nic = IF get_iface_for_address(d.vip) # None
                       THEN get_iface_for_address(d.vip)
                       ELSE config[IFACE_KEY]
            /\ d.cidr = IF get_netmask_for_address(d.vip) # None
                        THEN get_netmask_for_address(d.vip)
                        ELSE config[CIDR_KEY]

\* C9 witness: the sink holds a VirtualIP whose VIP a local interface owns
\* while both overrides are configured, and one built from the overrides
C9_Witness ==
    /\ config[IFACE_KEY] # None /\ config[CIDR_KEY] # None
    /\ \E R \in HandedSets : \E d, e \in Range(R) :
           /\ d.kind = "VirtualIP" /\ get_iface_for_address(d.vip) # None
           /\ e.kind = "VirtualIP" /\ get_iface_for_address(e.vip) = None

\* the tag and VIP of each descriptor of a resource set, in order
Shape(R) ==
    [i \in 1..Len(R) |->
        IF R[i].kind = "VirtualIP" THEN <<"vips", R[i].vip>>
        ELSE <<"haproxy", None>>]

\* the resolvable configured VIPs, in configured order
ResolvableVips == SelectSeq(config[VIP_KEY], Resolvable)

\* what the declared kinds from i on contribute, kind after kind
RECURSIVE DeclaredShape(_)
DeclaredShape(i) ==
    IF i > Len(ha_resources) THEN << >>
    ELSE (IF ha_resources[i] = "vips"
          THEN [n \in 1..Len(ResolvableVips) |-> <<"vips", ResolvableVips[n]>>]
          ELSE << <<"haproxy", None>> >>) \o DeclaredShape(i + 1)

\* C10 as stated: in every resource set handed to the sink all VirtualIP
\* descriptors come first, in configured order, whatever the order of the
\* declared kinds.
C10_VipsAlwaysFirst ==
    \A R \in HandedSets :
        Shape(R) = SelectSeq(DeclaredShape(1), LAMBDA x : x[1] = "vips")
                       \o SelectSeq(DeclaredShape(1), LAMBDA x : x[1] # "vips")

\* C10 amended: the resource set handed to the sink holds the descriptors
\* kind after kind in the order the kinds were declared, the VirtualIPs of a
\* 'vips' kind in the order of the configured 'vip' list.
C10_DeclaredOrder ==
    \A R \in HandedSets : Shape(R) = DeclaredShape(1)

\* C10 witness: 'haproxy' was declared before 'vips' and the set handed to
\* the sink holds two VirtualIPs after the InitService
C10_Witness ==
    /\ ha_resources = <<"haproxy", "vips">>
    /\ \E R \in HandedSets :
           /\ Len(R) = 3
           /\ R[2].kind = "VirtualIP" /\ R[3].kind = "VirtualIP"
           /\ R[2].vip # R[3].vip

\* ------------------------------------------------------------------------
\* Claims about the emitted declarations (checked under SpecRender)
\* ------------------------------------------------------------------------

\* a field counts as set when it is neither None nor empty
IsSet(x) == x # None /\ x # ""

\* C7: for a VIP literal that parses, every primitive a VirtualIP emits has
\* the IPv6addr type and the VIP under ipv6addr= iff the VIP is an IPv6
\* address, else the IPaddr2 type and the VIP under ip=; then nic= iff nic is
\* set, then cidr_netmask= iff cidr is set, in that order.
C7_FamilyAndParamOrder ==
    descriptor.kind = "VirtualIP" =>
        \A i \in 1..Len(crm) :
            LET d == descriptor
                head == IF d.vip \in IPv6Literals
                        THEN <<"ipv6addr=\"", d.vip, "\"">>
                        ELSE <<"ip=\"", d.vip, "\"">>
                nic == IF IsSet(d.nic) THEN <<" nic=\"", d.nic, "\"">>
                       ELSE << >>
                cidr == IF IsSet(d.cidr)
                        THEN <<" cidr_netmask=\"", d.cidr, "\"">> ELSE << >>
            IN  /\ crm[i].call = "primitive"
                /\ crm[i].type = <<"ocf:heartbeat:IPv6addr">>
                       <=> d.vip \in IPv6Literals
                /\ crm[i].type = <<"ocf:heartbeat:IPaddr2">>
                       <=> d.vip \in IPv4Literals
                /\ crm[i].params = head \o nic \o cidr

\* C7 witness: an IPv6 VIP with nic and cidr set has been rendered
C7_Witness ==
    /\ descriptor.kind = "VirtualIP"
    /\ descriptor.vip \in IPv6Literals
    /\ IsSet(descriptor.nic) /\ IsSet(descriptor.cidr)
    /\ Len(crm) > 0

\* the keys the emitted declarations are stored under
EmittedKeys ==
    {crm[i].name : i \in {k \in 1..Len(crm) :
                              crm[k].call \in {"primitive", "clone"}}}

\* C8: every key is built from the service name with '-' replaced by '_':
\* res_{service}_{nic}_vip for a VirtualIP, res_{service}_{init} and
\* cl_res_{service}_{init} for a managed service, so no key keeps a '-' of
\* the service name.
C8_KeysNormalizeServiceName ==
    LET d == descriptor
        svc == Replace(d.service_name, "-", "_")
    IN  /\ (d.kind = "VirtualIP" /\ Len(crm) > 0) =>
               EmittedKeys = { <<"res_">> \o svc \o <<"_", d.nic, "_vip">> }
        /\ (d.kind = "InitService" /\ Len(crm) > 0) =>
               EmittedKeys =
                   { <<"res_">> \o svc \o <<"_">>
                         \o Replace(d.init_service_name, "-", "_"),
                     <<"cl_", "res_">> \o svc \o <<"_">>
                         \o Replace(d.init_service_name, "-", "_") }
        /\ \A key \in EmittedKeys : "-" \notin Range(key)

\* ------------------------------------------------------------------------
\* Claims about repetition (checked under SpecIdempotence)
\* ------------------------------------------------------------------------

\* the resource sets handed to the sink, pass after pass
HandedSeq == SelectSeq(sink, LAMBDA c : c.call = "manage_resources")

\* the number of declarations one configure_resource call emits
CallsPerRender == IF descriptor.kind = "InitService" THEN 3 ELSE 1

\* with configuration and interfaces unchanged, every pass hands the sink
\* the same ordered set, at most one set per pass, and the charm holds
\* exactly the set of its last pass; a descriptor emits the same
\* declarations at every configure_resource call
SameEveryTime ==
    /\ \A i, j \in 1..Len(HandedSeq) :
           /\ HandedSeq[i].resources = HandedSeq[j].resources
           /\ i # j => HandedSeq[i].pass # HandedSeq[j].pass
    /\ \A i \in 1..Len(HandedSeq) :
           Shape(HandedSeq[i].resources) = DeclaredShape(1)
    /\ (entry = "charm" /\ raised = None /\ ha_resources # << >>) =>
           /\ HandedSeq # << >>
           /\ resources = HandedSeq[Len(HandedSeq)].resources
    /\ \A i \in 1..Len(crm) :
           i + CallsPerRender <= Len(crm) => crm[i] = crm[i + CallsPerRender]

\* C11: descriptor generation is idempotent: consecutive passes each hand
\* the sink the same ordered ResourceSet, built fresh in each pass, and
\* configure_resource on the same descriptor emits identical declarations
\* each time and leaves the descriptor's fields unchanged.
C11_Idempotent ==
    /\ [] SameEveryTime
    /\ [][descriptor' = descriptor]_vars

\* C11 witness: two passes, one by each entry point, have each handed a set
\* that holds a VirtualIP and an InitService
C11_Witness ==
    /\ pass = 2
    /\ Len(HandedSeq) = 2
    /\ \E R \in HandedSets : \E i, j \in 1..Len(R) :
           R[i].kind = "VirtualIP" /\ R[j].kind = "InitService"
    /\ resources # << >>

\* ------------------------------------------------------------------------
\* Claims about the adapter registry (checked under SpecRegistry)
\* ------------------------------------------------------------------------

\* the mapping a registry class declares: the defaults with the class's own
\* relation_adapters written over them
OwnMapping(cls) == DictUpdate(DefaultAdapters, relation_adapters(cls))

\* the adapter kind a registry class declares for a normalized relation name
DeclaredKind(cls, name) ==
    IF name \in DOMAIN OwnMapping(cls) THEN OwnMapping(cls)[name] ELSE Generic

\* C12: constructing a registry, of the base class or of a service subclass
\* with relation_adapters, leaves the shared _adapters mapping as it was
\* defined, so the adapter kind a registry picks for a relation type is the
\* one its own class declares, whichever registries were constructed before.
C12_SharedMappingReadOnly ==
    /\ _adapters = DefaultAdapters
    /\ (registry.cls # None /\ registry.fault = None) =>
           \A i \in 1..Len(registry.adapters) :
               registry.adapters[i].kind =
                   DeclaredKind(registry.cls, registry.adapters[i].name)

\* C13: a registry exposes, for every visible relation, one adapter under
\* the relation name with '-' replaced by '_'; it is of the kind mapped to
\* that name when the name is mapped and generic only when it is not; when
\* a mapped adapter's constructor fails the construction fails and no
\* generic adapter silently takes its place.
C13_MappedKindOrError ==
    registry.cls # None =>
        /\ registry.raised = None =>
               Len(registry.adapters) = Len(registry.relations)
        /\ \A i \in 1..Len(registry.adapters) :
               LET a == registry.adapters[i]
               IN  /\ a.relation = registry.relations[i]
                   /\ a.name = Replace(a.relation.relation_name, "-", "_")
                   /\ a.kind = DeclaredKind(registry.cls, a.name)
        /\ (/\ registry.fault # None
            /\ \E i \in 1..Len(registry.relations) :
                   RunsOwnCode(DeclaredKind(registry.cls,
                       Replace(registry.relations[i].relation_name, "-", "_"))))
               => registry.raised # None

\* the field names an adapter exposes as properties: those set on its class
\* and those set on the generic class it inherits from
Exposed(a) == class_props[a.kind] \cup class_props[Generic]

\* the fields an adapter is meant to expose: its relation's auto accessors
\* and the additions of its kind
OwnFields(a) ==
    LET fields == add_accessors(a.kind) \o a.relation.auto_accessors
    IN  {Replace(fields[i], "-", "_") : i \in 1..Len(fields)}

\* C14: after any sequence of constructions every adapter exposes exactly
\* its own relation's auto-discovered fields plus its kind's additions, and
\* none introduced by an adapter around another relation.
C14_OnlyOwnFields ==
    \A i \in 1..Len(registry.adapters) :
        Exposed(registry.adapters[i]) = OwnFields(registry.adapters[i])

====
